---- MODULE Spec2Model ----
(***************************************************************************)
(* Crate Digger: the client state machine of src/app/page.tsx (preview     *)
(* race guard, destination slots, send with auto-remove), the aggregation  *)
(* route src/app/api/playlist-tracks/route.ts, and the cookie-based auth   *)
(* of the API routes.                                                      *)
(*                                                                         *)
(* The client is single-threaded: every action below is one synchronous    *)
(* run of a handler or of the continuation of an await.  React state is    *)
(* rendered between any two such runs, so a click handler reads the state  *)
(* of the latest render, while the keydown listener and the continuation   *)
(* of an await read the render their closure was created in.               *)
(***************************************************************************)
EXTENDS Integers, Sequences, FiniteSets, TLC

(***************************************************************************)
(* Bounds of the client model.                                             *)
(***************************************************************************)
MaxRequestId == 4
MaxSends == 2
MaxSendsPerTrack == 2
MaxLoads == 2
NumSlots == 1

Null == "null"

\* Environment data: the playlists of the user and the upstream track list
\* of each, the tracks that carry a first-party preview_url, and the sets
\* of playlists the current user may own.
TrackIds == {"t1", "t2"}
PlaylistIds == {"pA", "pB"}
PlaylistTracks(p) == IF p = "pA" THEN <<"t1", "t2">> ELSE <<"t2", "t1">>
FirstParty == {"t1"}
OwnedInputs == {{"pA", "pB"}, {"pA"}}
Slots == 1..NumSlots

minGap == 300
Tick == minGap

Min(a, b) == IF a < b THEN a ELSE b
Max(a, b) == IF a > b THEN a ELSE b
SeqToSet(s) == {s[i] : i \in 1..Len(s)}
IndexOf(s, x) == IF \E i \in 1..Len(s) : s[i] = x
                 THEN CHOOSE i \in 1..Len(s) : s[i] = x /\ \A j \in 1..(i - 1) : s[j] /= x
                 ELSE 0
Filter(s, x) == SelectSeq(s, LAMBDA y : y /= x)

VARIABLES
  selectedPlaylistId,     \* useState, page.tsx:70
  tracks,                 \* useState, page.tsx:75 (sequence of track ids)
  playingTrackId,         \* useState, page.tsx:79
  selectedTrackId,        \* useState, page.tsx:81
  previewOverrides,       \* useState, page.tsx:83 ("unset" | "none" | "url")
  lastItunesRequestTime,  \* useRef, page.tsx:87 ([set, since]: ms since the last request)
  previewRequestIdRef,    \* useRef, page.tsx:88
  followPlaybackRef,      \* useRef, page.tsx:89
  audio,                  \* audioRef.current, page.tsx:78
  destinations,           \* useState, page.tsx:93
  autoRemoveOnSend,       \* useState, page.tsx:109
  ownedPlaylists,         \* page.tsx:897 (ids of the playlists owned by currentUserId)
  attempts,               \* handlePreviewClick calls suspended at an await
  sends,                  \* handleSendToDestination calls suspended at an await
  loadingTracks,          \* useState, page.tsx:76
  loads,                  \* handleSelectPlaylist calls suspended at the fetch
  keyClosure,             \* render captured by the keydown listener, page.tsx:788
  addCount,               \* history: destination-add calls per slot and track, issued since the
                          \* slot was retargeted and not answered with a failure
  history,                \* history: tags of events that have happened
  \* the browser's cookies and the API routes
  cookieJar,              \* [access, refresh]: spotify_access_token, spotify_refresh_token
  setCookies,             \* Set-Cookie headers of the latest logout or callback response
  sinceLogout,            \* history: logout has responded and no callback has succeeded since
  lastCall,               \* history: the latest call to a protected endpoint since then
  \* one GET /api/playlist-tracks request, route.ts
  upstream,               \* the pages of the upstream track listing
  routePc,                \* "checks" | "page" | "artists" | "done"
  nextUrl,                \* route.ts:26 (index of the page it points to, 0 for null)
  allItems,               \* route.ts:23
  baseData,               \* route.ts:24 (index of the page it was taken from, 0 for null)
  artistIds,              \* route.ts:82
  artistGenresMap,        \* route.ts:83
  chunkStart,             \* i of route.ts:88, counted from 1
  response,               \* [status, items] returned by the handler, status 0 while it runs
  pageRequests,           \* history: upstream page requests issued
  chunkRequests,          \* history: upstream artist lookups issued
  lookups,                \* history: the ids of each artist lookup issued, in order
  lookedUp,               \* history: artist ids for which a lookup returned an artist
  failure,                \* history: "none" | "page" | "chunk", the upstream request that failed
  \* POST /api/destination-add requests against one destination playlist
  playlistUris,           \* the track URIs of the upstream playlist, in order
  addReqs,                \* the requests being served: [pc, uri, seen, result]
  failedAdds              \* history: [slot, track] of the sends whose add call failed

clientVars == <<selectedPlaylistId, tracks, playingTrackId, selectedTrackId,
                previewOverrides, lastItunesRequestTime, previewRequestIdRef,
                followPlaybackRef, audio, destinations, autoRemoveOnSend, ownedPlaylists,
                attempts, sends, loadingTracks, loads, keyClosure,
                addCount, history>>
authVars == <<cookieJar, setCookies, sinceLogout, lastCall>>
routeVars == <<upstream, routePc, nextUrl, allItems, baseData, artistIds, artistGenresMap,
               chunkStart, response, pageRequests, chunkRequests, lookups, lookedUp,
               failure>>
addVars == <<playlistUris, addReqs, failedAdds>>
vars == <<clientVars, authVars, routeVars, addVars>>

NoAudio == [exists |-> FALSE, src |-> Null, loop |-> FALSE, playing |-> FALSE]
EmptyAudio == [exists |-> TRUE, src |-> Null, loop |-> FALSE, playing |-> FALSE]
EmptySlot == [mode |-> "none", playlistId |-> Null, sentTrackIds |-> {}]

\* The state a render hands to the closures created in it (the values the
\* keydown listener does not list among its dependencies).
Render == [destinations |-> destinations,
           selectedPlaylistId |-> selectedPlaylistId,
           autoRemoveOnSend |-> autoRemoveOnSend,
           previewOverrides |-> previewOverrides]

ClientInit ==
  /\ selectedPlaylistId = Null
  /\ tracks = <<>>
  /\ playingTrackId = Null
  /\ selectedTrackId = Null
  /\ previewOverrides = [t \in TrackIds |-> "unset"]
  /\ lastItunesRequestTime = [set |-> FALSE, since |-> 0]
  /\ previewRequestIdRef = 0
  /\ followPlaybackRef = FALSE
  /\ audio = NoAudio
  /\ destinations = [s \in Slots |-> EmptySlot]
  /\ autoRemoveOnSend = FALSE
  /\ ownedPlaylists \in OwnedInputs
  /\ attempts = {}
  /\ sends = <<>>
  /\ loadingTracks = FALSE
  /\ loads = {}
  /\ keyClosure = Render
  /\ addCount = [s \in Slots |-> [t \in TrackIds |-> 0]]
  /\ history = {}

(***************************************************************************)
(* Preview playback (handlePreviewClick, page.tsx:271-414).                *)
(*                                                                         *)
(* A handler run works on a context record: the refs and state it reads    *)
(* and writes, plus tracksSet (whether it called setTracks).  An attempt   *)
(* suspended at an await is [id, track, pc, wait, aborted]: id is          *)
(* myRequestId, pc the await it is suspended at ("throttle", "fetch",      *)
(* "play"), wait the rest of its setTimeout delay, aborted whether its     *)
(* pending play() promise has been rejected with AbortError by a later     *)
(* pause()/load() of the element.                                          *)
(***************************************************************************)
Cur == [counter |-> previewRequestIdRef,
        follow |-> followPlaybackRef,
        audio |-> audio,
        playing |-> playingTrackId,
        selected |-> selectedTrackId,
        attempts |-> attempts,
        last |-> lastItunesRequestTime,
        hist |-> history,
        tracksSet |-> FALSE]

Attempt(my, track, pc, wait) ==
  [id |-> my, track |-> track, pc |-> pc, wait |-> wait, aborted |-> FALSE]

\* pause() and load() reject the pending play() promises of the element.
AbortPlays(as) == {IF a.pc = "play" THEN [a EXCEPT !.aborted = TRUE] ELSE a : a \in as}

\* Fault injection: a load that does not tear the element down first.
NoTearDown(p) == p

\* pause(); currentTime = 0; loop = false; removeAttribute("src"); load()
TearDown(p) == [p EXCEPT !.audio = EmptyAudio, !.attempts = AbortPlays(@)]

\* History: a write to shared playback state by the attempt `my`, tagged
\* when previewRequestIdRef no longer equals the id the attempt captured.
Mark(p, my, tag) == IF p.counter /= my THEN [p EXCEPT !.hist = @ \cup {tag}] ELSE p

\* page.tsx:382 and page.tsx:400
StillCurrent(p, my) == p.counter = my

\* page.tsx:361-413: BPM detection, the race check, load and play().  bpm
\* stands for the test of the closure's track object at page.tsx:361.
LoadAndPlay(p, my, track, bpm) ==
  LET p1 == IF bpm THEN [p EXCEPT !.tracksSet = TRUE] ELSE p
  IN IF ~StillCurrent(p1, my) THEN p1
     ELSE LET p2 == [Mark(p1, my, "staleFollow") EXCEPT !.follow = TRUE]
              p3 == IF ~p2.audio.exists THEN [p2 EXCEPT !.audio = EmptyAudio] ELSE TearDown(p2)
              p4 == [Mark(p3, my, "staleAudio") EXCEPT
                       !.audio = [exists |-> TRUE, src |-> track, loop |-> TRUE, playing |-> FALSE]]
          IN IF ~StillCurrent(p4, my) THEN p4
             ELSE [p4 EXCEPT !.audio.playing = TRUE,
                             !.attempts = @ \cup {Attempt(my, track, "play", 0)}]

\* page.tsx:323-331: record the request time and issue the search request.
\* History: fetchTooSoon when the previous search request was issued less
\* than minGap ago.
StartFetch(p, my, track) ==
  [p EXCEPT !.last = [set |-> TRUE, since |-> 0],
            !.attempts = @ \cup {Attempt(my, track, "fetch", 0)},
            !.hist = @ \cup (IF p.last.set /\ p.last.since < minGap
                             THEN {"fetchTooSoon"} ELSE {})]

\* Fault injection: an attempt that captures the counter without
\* incrementing it.
ReuseRequestId(p) == p.counter

\* page.tsx:296: ++previewRequestIdRef.current
NextRequestId(p) == p.counter + 1

\* The attempts a handler run has started.
Started(p, q) == {a \in q.attempts : a.id \notin {b.id : b \in p.attempts}}

\* What stopping the playing preview amounts to: page.tsx:273-282.
StopsOnly(p, q) ==
  /\ q.counter = p.counter + 1
  /\ q.follow = FALSE
  /\ q.playing = Null
  /\ q.audio = (IF p.audio.exists THEN EmptyAudio ELSE p.audio)
  /\ q.attempts = AbortPlays(p.attempts)
  /\ q.selected = p.selected /\ q.last = p.last /\ q.tracksSet = p.tracksSet

\* History: what a run of handlePreviewClick on `track`, from the context p
\* to the context q, looks like against the state it ran in (p.playing is
\* playingTrackId, previewOverrides the cache, at the time of the call).
PreviewTags(p, track, q) ==
  (IF p.playing = track /\ ~StopsOnly(p, q) THEN {"toggleDidNotStop"} ELSE {})
  \cup (IF p.playing \notin {Null, track} /\ q.playing /= Null
        THEN {"switchDidNotStop"} ELSE {})
  \cup (IF previewOverrides[track] /= "unset"
           /\ \E a \in Started(p, q) : a.pc \in {"throttle", "fetch"}
        THEN {"repeatLookup"} ELSE {})

\* page.tsx:271-414 up to the first await.  cPlaying and cOv are
\* playingTrackId and previewOverrides of the render the caller closed over.
PreviewSteps(p, track, cPlaying, cOv, bpm) ==
  IF cPlaying = track
  THEN LET p1 == [p EXCEPT !.counter = @ + 1, !.follow = FALSE]
           p2 == IF p1.audio.exists THEN TearDown(p1) ELSE p1
       IN [p2 EXCEPT !.playing = Null]
  ELSE LET p1 == IF cPlaying /= Null /\ p.audio.exists
                 THEN [TearDown([p EXCEPT !.counter = @ + 1]) EXCEPT !.playing = Null]
                 ELSE p
           my == NextRequestId(p1)
           p2 == [p1 EXCEPT !.counter = my, !.selected = track]
           hasUrl == track \in FirstParty \/ cOv[track] = "url"
       IN IF ~hasUrl /\ cOv[track] = "none" THEN [p2 EXCEPT !.follow = FALSE]
          ELSE IF ~hasUrl
          THEN IF p2.last.set /\ p2.last.since < minGap
               THEN [p2 EXCEPT !.attempts =
                       @ \cup {Attempt(my, track, "throttle", minGap - p2.last.since)}]
               ELSE StartFetch(p2, my, track)
          ELSE LoadAndPlay(p2, my, track, bpm)

\* handlePreviewClick with the history of what it did.
HandlePreviewClick(p, track, cPlaying, cOv, bpm) ==
  LET q == PreviewSteps(p, track, cPlaying, cOv, bpm)
  IN [q EXCEPT !.hist = @ \cup PreviewTags(p, track, q)]

\* The keydown effect (page.tsx:681-790) re-subscribes, with the closures of
\* the new render, when tracks, selectedTrackId or playingTrackId change.
KeyEffect(tracksSet) ==
  keyClosure' = IF \/ tracksSet
                   \/ selectedTrackId' /= selectedTrackId
                   \/ playingTrackId' /= playingTrackId
                THEN Render' ELSE keyClosure

\* Write a handler's context back.
Commit(p) ==
  /\ previewRequestIdRef' = p.counter
  /\ followPlaybackRef' = p.follow
  /\ audio' = p.audio
  /\ playingTrackId' = p.playing
  /\ selectedTrackId' = p.selected
  /\ attempts' = p.attempts
  /\ lastItunesRequestTime' = p.last
  /\ history' = p.hist

CounterRoom == previewRequestIdRef + 2 <= MaxRequestId

listVars == <<selectedPlaylistId, tracks, loadingTracks, loads, ownedPlaylists>>
destVars == <<destinations, autoRemoveOnSend, sends, addCount>>

\* The track table or card list is on screen: page.tsx:1605.
ListShown == ~loadingTracks /\ selectedPlaylistId /= Null /\ tracks /= <<>>

\* The preview button or the track name of a row (page.tsx:1729-1732,
\* 416-419, 2025-2029): the closure is the latest render.
PreviewClick(t, bpm) ==
  /\ ListShown /\ t \in SeqToSet(tracks)
  /\ CounterRoom
  /\ LET p == HandlePreviewClick([Cur EXCEPT !.selected = t], t, playingTrackId,
                                 previewOverrides, bpm)
     IN /\ bpm => p.tracksSet
        /\ Commit(p)
        /\ UNCHANGED <<listVars, destVars, previewOverrides>>
        /\ KeyEffect(p.tracksSet)

\* A tap on a track card: page.tsx:2000.
SelectTrack(t) ==
  /\ ListShown /\ t \in SeqToSet(tracks)
  /\ selectedTrackId /= t
  /\ selectedTrackId' = t
  /\ UNCHANGED <<listVars, destVars, previewOverrides, playingTrackId,
                 lastItunesRequestTime, previewRequestIdRef, followPlaybackRef,
                 audio, attempts, history>>
  /\ KeyEffect(FALSE)

\* moveSelection (page.tsx:682-703), run by the keydown listener: tracks,
\* selectedTrackId and playingTrackId of its closure are those of the latest
\* render (they are the dependencies of the effect), previewOverrides is not.
MoveSelection(p, direction, shouldPlay, bpm) ==
  LET currentIndex == IF selectedTrackId /= Null THEN IndexOf(tracks, selectedTrackId) ELSE 0
      newIndex == currentIndex + direction
  IN IF tracks = <<>> THEN p
     ELSE IF currentIndex = 0
     THEN IF direction = 1 THEN [p EXCEPT !.selected = tracks[1]] ELSE p
     ELSE IF newIndex < 1 \/ newIndex > Len(tracks) THEN p
     ELSE LET p1 == [p EXCEPT !.selected = tracks[newIndex]]
          IN IF shouldPlay
             THEN HandlePreviewClick(p1, tracks[newIndex], playingTrackId,
                                     keyClosure.previewOverrides, bpm)
             ELSE p1

\* ArrowDown and ArrowUp: page.tsx:730-747.
KeyArrow(direction, bpm) ==
  /\ tracks /= <<>>
  /\ direction = -1 => selectedTrackId /= Null
  /\ CounterRoom
  /\ LET p == MoveSelection(Cur, direction,
                            IF selectedTrackId = Null THEN FALSE ELSE followPlaybackRef, bpm)
     IN /\ p /= Cur
        /\ bpm => p.tracksSet
        /\ Commit(p)
        /\ UNCHANGED <<listVars, destVars, previewOverrides>>
        /\ KeyEffect(p.tracksSet)

\* Space: page.tsx:749-762.
KeySpace(bpm) ==
  /\ selectedTrackId /= Null \/ playingTrackId /= Null
  /\ CounterRoom
  /\ UNCHANGED <<listVars, destVars, previewOverrides>>
  /\ LET id == IF selectedTrackId /= Null THEN selectedTrackId ELSE playingTrackId
     IN /\ id \in SeqToSet(tracks)
        /\ LET p == HandlePreviewClick(Cur, id, playingTrackId,
                                       keyClosure.previewOverrides, bpm)
           IN /\ bpm => p.tracksSet
              /\ Commit(p)
              /\ KeyEffect(p.tracksSet)

\* The setTimeout of page.tsx:318-320 has fired: page.tsx:323-331.
ThrottleDone(a) ==
  /\ a \in attempts /\ a.pc = "throttle" /\ a.wait = 0
  /\ Commit(StartFetch(Mark([Cur EXCEPT !.attempts = @ \ {a}], a.id, "staleLookup"),
                       a.id, a.track))
  /\ UNCHANGED <<listVars, destVars, previewOverrides>>
  /\ KeyEffect(FALSE)

\* page.tsx:356-359: no preview URL.
NoUrlExit(p, my) == [Mark(p, my, "staleFollow") EXCEPT !.follow = FALSE]

\* The search request has settled: page.tsx:332-413.  res is "url" (OK with
\* a previewUrl), "none" (OK without one) or "error" (not OK, or thrown).
FetchDone(a, res, bpm) ==
  /\ a \in attempts /\ a.pc = "fetch"
  /\ previewOverrides' = [previewOverrides EXCEPT ![a.track] = IF res = "url" THEN "url" ELSE "none"]
  /\ LET p0 == [Cur EXCEPT !.attempts = @ \ {a}]
         p == IF res = "url" THEN LoadAndPlay(p0, a.id, a.track, bpm) ELSE NoUrlExit(p0, a.id)
     IN /\ bpm => p.tracksSet
        /\ Commit(p)
        /\ UNCHANGED <<listVars, destVars>>
        /\ KeyEffect(p.tracksSet)

\* Fault injection: the then-callback of play() without the check of
\* page.tsx:405.
PlayAlwaysSets(p, my) == TRUE

\* page.tsx:405: the guard of setPlayingTrackId.
PlayMaySet(p, my) == p.counter = my

\* play() has resolved: page.tsx:404-408.
PlayResolved(a) ==
  /\ a \in attempts /\ a.pc = "play" /\ ~a.aborted
  /\ LET p == [Cur EXCEPT !.attempts = @ \ {a}]
     IN Commit(IF PlayMaySet(p, a.id)
               THEN [Mark(p, a.id, "stalePlaying") EXCEPT !.playing = a.track]
               ELSE [p EXCEPT !.hist = @ \cup {"skippedPlaying"}])
  /\ UNCHANGED <<listVars, destVars, previewOverrides>>
  /\ KeyEffect(FALSE)

\* play() has rejected: page.tsx:409-413.  An aborted promise rejects with
\* AbortError; after any other rejection the element is not playing.
PlayRejected(a) ==
  /\ a \in attempts /\ a.pc = "play"
  /\ LET p == [Cur EXCEPT !.attempts = @ \ {a}]
     IN Commit(IF a.aborted THEN p
               ELSE [Mark(p, a.id, "staleFollow") EXCEPT !.follow = FALSE,
                                                        !.audio.playing = FALSE])
  /\ UNCHANGED <<listVars, destVars, previewOverrides>>
  /\ KeyEffect(FALSE)

\* A detectBpmFromUrl promise has settled: page.tsx:367-379
\* (setTracks(prev.map(...)): the list keeps its ids and the page renders).
\* The BPM fields of a track are not modelled, nor which detections are
\* pending: the action is enabled once a preview has been started.
BpmDetected ==
  /\ previewRequestIdRef > 0
  /\ UNCHANGED <<listVars, destVars, previewOverrides, playingTrackId, selectedTrackId,
                 lastItunesRequestTime, previewRequestIdRef, followPlaybackRef,
                 audio, attempts, history>>
  /\ KeyEffect(TRUE)

\* Time passes by Tick ms: the time since the last search request grows (up
\* to minGap, beyond which the code no longer tells) and pending timers run
\* down.
TimePasses ==
  /\ \/ lastItunesRequestTime.set /\ lastItunesRequestTime.since < minGap
     \/ \E a \in attempts : a.wait > 0
  /\ lastItunesRequestTime' =
       [lastItunesRequestTime EXCEPT !.since = IF lastItunesRequestTime.set
                                               THEN Min(@ + Tick, minGap) ELSE @]
  /\ attempts' = {[a EXCEPT !.wait = Max(@ - Tick, 0)] : a \in attempts}
  /\ UNCHANGED <<listVars, destVars, previewOverrides, playingTrackId, selectedTrackId,
                 previewRequestIdRef, followPlaybackRef, audio,
                 keyClosure, history>>

(***************************************************************************)
(* Playlist selection (handleSelectPlaylist, page.tsx:198-256).            *)
(***************************************************************************)
SelectPlaylist(pl) ==
  /\ pl \in PlaylistIds
  /\ previewRequestIdRef + 1 <= MaxRequestId
  /\ Cardinality(loads \cup {pl}) <= MaxLoads
  /\ selectedPlaylistId' = pl
  /\ tracks' = <<>>
  /\ loadingTracks' = TRUE
  /\ LET p1 == [Cur EXCEPT !.playing = Null, !.selected = Null, !.follow = FALSE]
     IN Commit(IF p1.audio.exists THEN TearDown([p1 EXCEPT !.counter = @ + 1]) ELSE p1)
  /\ loads' = loads \cup {pl}
  /\ UNCHANGED <<destVars, previewOverrides, ownedPlaylists>>
  /\ KeyEffect(TRUE)

\* The playlist-tracks response: page.tsx:224-255.
TracksLoaded(pl, ok) ==
  /\ pl \in loads
  /\ loads' = loads \ {pl}
  /\ tracks' = IF ok THEN PlaylistTracks(pl) ELSE tracks
  /\ loadingTracks' = FALSE
  /\ UNCHANGED <<selectedPlaylistId, ownedPlaylists, destVars, previewOverrides, playingTrackId,
                 selectedTrackId, lastItunesRequestTime, previewRequestIdRef,
                 followPlaybackRef, audio, attempts, history>>
  /\ KeyEffect(ok)
(***************************************************************************)
(* Destination slots (page.tsx:421-456) and the auto-remove checkbox       *)
(* (page.tsx:1577).                                                        *)
(***************************************************************************)
\* value is "" (No destination), "__new__" or the id of an owned playlist
\* (the options of the select, page.tsx:1234-1251).
DestinationSelectChange(slotId, value) ==
  /\ slotId \in Slots
  /\ value \in {"", "__new__"} \cup ownedPlaylists
  /\ LET slot == destinations[slotId]
         new == IF value = "" THEN EmptySlot
                ELSE IF value = "__new__"
                THEN [mode |-> "new", playlistId |-> Null, sentTrackIds |-> {}]
                ELSE [mode |-> "existing", playlistId |-> value,
                      sentTrackIds |-> IF value /= slot.playlistId THEN {}
                                       ELSE slot.sentTrackIds]
     IN /\ new /= slot
        /\ destinations' = [destinations EXCEPT ![slotId] = new]
        /\ addCount' = IF new.playlistId /= slot.playlistId
                       THEN [addCount EXCEPT ![slotId] = [t \in TrackIds |-> 0]]
                       ELSE addCount
  /\ UNCHANGED <<listVars, autoRemoveOnSend, sends, previewOverrides, playingTrackId,
                 selectedTrackId, lastItunesRequestTime, previewRequestIdRef,
                 followPlaybackRef, audio, attempts, history>>
  /\ KeyEffect(FALSE)

ToggleAutoRemove ==
  /\ autoRemoveOnSend' = ~autoRemoveOnSend
  /\ UNCHANGED <<listVars, destinations, sends, addCount, previewOverrides,
                 playingTrackId, selectedTrackId, lastItunesRequestTime,
                 previewRequestIdRef, followPlaybackRef, audio, attempts, history>>
  /\ KeyEffect(FALSE)

(***************************************************************************)
(* Send to a destination (handleSendToDestination, page.tsx:534-679).      *)
(*                                                                         *)
(* c is the render the handler closed over: [destinations,                 *)
(* selectedPlaylistId, autoRemoveOnSend, previewOverrides, tracks,         *)
(* selectedTrackId, playingTrackId].  A call suspended at an await is      *)
(* [slot, track, playlistId, pc, c, auto, source] with pc "add" or         *)
(* "remove"; auto and source are history: whether auto-remove was on when  *)
(* the send was triggered, and the source playlist selected then.          *)
(***************************************************************************)
\* What the continuation after the awaits reads of the closure: nothing
\* but autoRemoveOnSend when that is off (page.tsx:602).
Kept(c) == IF c.autoRemoveOnSend THEN c
           ELSE [destinations |-> <<>>, selectedPlaylistId |-> Null,
                 autoRemoveOnSend |-> FALSE, previewOverrides |-> <<>>,
                 tracks |-> <<>>, selectedTrackId |-> Null, playingTrackId |-> Null]

Closure(r) == [destinations |-> r.destinations,
               selectedPlaylistId |-> r.selectedPlaylistId,
               autoRemoveOnSend |-> r.autoRemoveOnSend,
               previewOverrides |-> r.previewOverrides,
               tracks |-> tracks,
               selectedTrackId |-> selectedTrackId,
               playingTrackId |-> playingTrackId]

\* page.tsx:538: the slot references an existing playlist.
SlotReady(slot) == slot.mode = "existing" /\ slot.playlistId /= Null

\* page.tsx:545: source and destination are the same playlist.
SameAsSource(slot, selPl) == selPl /= Null /\ slot.playlistId = selPl

\* page.tsx:552: already sent to this slot in this session.
AlreadySent(slot, track) == track \in slot.sentTrackIds

\* page.tsx:535-557: the handler goes on to issue the request.
SendPasses(c, slotId, track) ==
  LET slot == c.destinations[slotId]
  IN /\ SlotReady(slot)
     /\ ~SameAsSource(slot, c.selectedPlaylistId)
     /\ ~AlreadySent(slot, track)

\* History: what a destination-add call looks like against the state at the
\* time it is issued.
CallTags(playlistId, slotId) ==
  (IF selectedPlaylistId /= Null /\ playlistId = selectedPlaylistId THEN {"addToSource"} ELSE {})
  \cup (IF ~SlotReady(destinations[slotId]) THEN {"addFromUnsetSlot"} ELSE {})

\* page.tsx:534-584, up to the await of the destination-add request.
HandleSendToDestination(slotId, track, c) ==
  /\ slotId \in Slots
  /\ SendPasses(c, slotId, track)
  /\ Len(sends) < MaxSends
  /\ addCount[slotId][track] < MaxSendsPerTrack
  /\ sends' = Append(sends, [slot |-> slotId, track |-> track,
                             playlistId |-> c.destinations[slotId].playlistId,
                             pc |-> "add", c |-> Kept(c),
                             auto |-> autoRemoveOnSend,
                             source |-> IF autoRemoveOnSend \/ c.autoRemoveOnSend
                                        THEN selectedPlaylistId ELSE Null])
  /\ addCount' = [addCount EXCEPT ![slotId][track] = @ + 1]
  /\ history' = history \cup CallTags(c.destinations[slotId].playlistId, slotId)
  /\ UNCHANGED <<listVars, destinations, autoRemoveOnSend, previewOverrides,
                 playingTrackId, selectedTrackId, lastItunesRequestTime,
                 previewRequestIdRef, followPlaybackRef, audio, attempts>>
  /\ KeyEffect(FALSE)

\* page.tsx:1837-1839: the slot button of the desktop grid.
DesktopEnabled(slot) == slot.mode = "existing" /\ slot.playlistId /= Null

\* page.tsx:2254-2261: the slot button of the mobile pad.
MobileEnabled(slot) ==
  /\ slot.mode = "existing" /\ slot.playlistId /= Null
  /\ ~(selectedPlaylistId /= Null /\ slot.playlistId = selectedPlaylistId)

\* page.tsx:1820: the grid is in the row of the selected track.
DesktopGridShown == ListShown /\ selectedTrackId \in SeqToSet(tracks)

\* page.tsx:265-269
ActiveTrackId == IF selectedTrackId /= Null THEN selectedTrackId ELSE playingTrackId

\* A click on a slot button of the desktop grid: page.tsx:1865-1868.
DesktopSendClick(slotId) ==
  /\ DesktopGridShown
  /\ DesktopEnabled(destinations[slotId])
  /\ HandleSendToDestination(slotId, selectedTrackId, Closure(Render))

\* A tap on a slot button of the mobile pad: page.tsx:2290-2298.
MobileSendClick(slotId) ==
  /\ MobileEnabled(destinations[slotId])
  /\ ActiveTrackId \in SeqToSet(tracks)
  /\ HandleSendToDestination(slotId, ActiveTrackId, Closure(Render))

\* A number key: page.tsx:720-728, with the closures of the keydown listener.
KeySend(slotId) ==
  /\ selectedTrackId \in SeqToSet(tracks)
  /\ HandleSendToDestination(slotId, selectedTrackId, Closure(keyClosure))

\* page.tsx:669-675
MarkSent(dests, slotId, track) ==
  [dests EXCEPT ![slotId].sentTrackIds = @ \cup {track}]

\* page.tsx:611-637: handleLocalRemovalAndPlayback, in the closure c.  It
\* calls setTracks itself, so whether handlePreviewClick does so too
\* (page.tsx:361) changes nothing.
LocalRemovalAndPlayback(p, c, track) ==
  LET index == IndexOf(c.tracks, track)
      nextTrack == IF index = 0 THEN Null
                   ELSE IF index + 1 <= Len(c.tracks) THEN c.tracks[index + 1]
                   ELSE IF index - 1 >= 1 THEN c.tracks[index - 1]
                   ELSE Null
      p0 == [p EXCEPT !.tracksSet = TRUE]
  IN IF nextTrack /= Null
     THEN HandlePreviewClick([p0 EXCEPT !.selected = nextTrack], nextTrack,
                             c.playingTrackId, c.previewOverrides, FALSE)
     ELSE LET p1 == IF c.selectedTrackId = track THEN [p0 EXCEPT !.selected = Null] ELSE p0
          IN IF c.playingTrackId = track /\ p1.audio.exists
             THEN [TearDown([p1 EXCEPT !.counter = @ + 1, !.follow = FALSE])
                     EXCEPT !.playing = Null]
             ELSE p1

\* Fault injection: a send that takes every source playlist for the user's.
AlwaysOwned(c) == TRUE

\* page.tsx:603-609
IsSourceOwned(c) == c.selectedPlaylistId /= Null /\ c.selectedPlaylistId \in ownedPlaylists

RemoveAt(s, i) == [j \in 1..(Len(s) - 1) |-> IF j < i THEN s[j] ELSE s[j + 1]]

\* History: a remove-from-playlist call for another playlist than the
\* source of the send.
RemoveTags(snd, playlistId) ==
  IF playlistId /= snd.source THEN {"removeFromOther"} ELSE {}

\* History: an added track for which no removal is attempted although
\* auto-remove was on and the source owned when the send was triggered.
SkipTags(snd) ==
  IF snd.auto /\ snd.source /= Null /\ snd.source \in ownedPlaylists
  THEN {"removeSkipped"} ELSE {}

\* Fault injection: a failed destination-add call booked as a success.
MarkOnFailure(dests, slotId, track) == MarkSent(dests, slotId, track)

\* page.tsx:585-588 and 676-678: the slots after a destination-add call
\* that answered non-OK or threw.
OnAddFailure(dests, slotId, track) == dests

\* The destination-add response: page.tsx:585-678.
AddResponse(i, ok) ==
  /\ i \in 1..Len(sends) /\ sends[i].pc = "add"
  /\ LET snd == sends[i]
         c == snd.c
     IN IF ~ok
        THEN /\ sends' = RemoveAt(sends, i)
             /\ addCount' = IF snd.playlistId = destinations[snd.slot].playlistId
                            THEN [addCount EXCEPT ![snd.slot][snd.track] = Max(@ - 1, 0)]
                            ELSE addCount
             /\ destinations' = OnAddFailure(destinations, snd.slot, snd.track)
             /\ UNCHANGED <<listVars, autoRemoveOnSend,
                            previewOverrides, playingTrackId, selectedTrackId,
                            lastItunesRequestTime, previewRequestIdRef,
                            followPlaybackRef, audio, attempts, history>>
             /\ KeyEffect(FALSE)
        ELSE IF c.autoRemoveOnSend /\ IsSourceOwned(c)
        THEN /\ sends' = [sends EXCEPT ![i].pc = "remove"]
             /\ history' = history \cup {"removeCall"} \cup RemoveTags(snd, c.selectedPlaylistId)
             /\ UNCHANGED <<listVars, destinations, autoRemoveOnSend, addCount,
                            previewOverrides, playingTrackId, selectedTrackId,
                            lastItunesRequestTime, previewRequestIdRef,
                            followPlaybackRef, audio, attempts>>
             /\ KeyEffect(FALSE)
        ELSE /\ sends' = RemoveAt(sends, i)
             /\ destinations' = MarkSent(destinations, snd.slot, snd.track)
             /\ IF c.autoRemoveOnSend
                THEN /\ CounterRoom
                     /\ LET p == LocalRemovalAndPlayback(Cur, c, snd.track)
                        IN /\ tracks' = Filter(tracks, snd.track)
                           /\ Commit(p)
                           /\ UNCHANGED <<selectedPlaylistId, loadingTracks, loads, ownedPlaylists,
                                          autoRemoveOnSend, addCount, previewOverrides>>
                           /\ KeyEffect(TRUE)
                ELSE /\ history' = history \cup SkipTags(snd)
                     /\ UNCHANGED <<listVars, autoRemoveOnSend, addCount,
                                    previewOverrides, playingTrackId, selectedTrackId,
                                    lastItunesRequestTime, previewRequestIdRef,
                                    followPlaybackRef, audio, attempts>>
                     /\ KeyEffect(FALSE)

\* The remove-from-playlist response: page.tsx:651-675.
RemoveResponse(i, ok) ==
  /\ i \in 1..Len(sends) /\ sends[i].pc = "remove"
  /\ LET snd == sends[i]
     IN /\ sends' = RemoveAt(sends, i)
        /\ destinations' = MarkSent(destinations, snd.slot, snd.track)
        /\ IF ok
           THEN /\ CounterRoom
                /\ LET p == LocalRemovalAndPlayback(Cur, snd.c, snd.track)
                   IN /\ tracks' = Filter(tracks, snd.track)
                      /\ Commit(p)
                      /\ UNCHANGED <<selectedPlaylistId, loadingTracks, loads, ownedPlaylists,
                                     autoRemoveOnSend, addCount, previewOverrides>>
                      /\ KeyEffect(TRUE)
           ELSE /\ UNCHANGED <<listVars, autoRemoveOnSend, addCount,
                               previewOverrides, playingTrackId, selectedTrackId,
                               lastItunesRequestTime, previewRequestIdRef,
                               followPlaybackRef, audio, attempts, history>>
                /\ KeyEffect(FALSE)

(***************************************************************************)
(* Cookies (callback/route.ts:96-112, logout/route.ts:11-25).  A cookie of *)
(* the jar is Absent or a token; a Set-Cookie header is [name, value,      *)
(* maxAge], and the browser drops a cookie set with maxAge 0.              *)
(***************************************************************************)
Absent == "absent"
Tokens == {"tokenA", "tokenB"}
CookieNames == {"access", "refresh"}
NoCookies == [access |-> Absent, refresh |-> Absent]

\* req.cookies.get("spotify_access_token")?.value, route.ts:5
AccessToken(jar) == IF jar.access = Absent THEN "" ELSE jar.access

(***************************************************************************)
(* GET /api/playlist-tracks (playlist-tracks/route.ts).                    *)
(*                                                                         *)
(* An upstream item is [id, track], track being [null, artists]: null      *)
(* tells an item whose track is null, artists are artist ids, 0 for an     *)
(* artist whose id is null (a local file).  The items of a response are    *)
(* [item, has_genres, artist_genres]: has_genres tells whether the item    *)
(* carries the artist_genres field.                                        *)
(***************************************************************************)
MaxPages == 2
ChunkSize == 50
WideArtists == 51

Item(id, artists) == [id |-> id, track |-> [null |-> FALSE, artists |-> artists]]
NullItem(id) == [id |-> id, track |-> [null |-> TRUE, artists |-> <<>>]]

\* The pages upstream may serve: two tracks with the same two artists, a
\* null track, an artist without id, a track without artists, an empty
\* page, a track with more artists than one lookup takes, and a track that
\* with the two artists of the first pages fills one lookup exactly.
PageLib ==
  { <<Item(1, <<1, 2>>), NullItem(2), Item(3, <<2, 0>>)>>,
    <<Item(4, <<>>), Item(5, <<2, 1>>)>>,
    <<>>,
    <<Item(6, [k \in 1..WideArtists |-> k + 2])>>,
    <<Item(7, [k \in 1..(ChunkSize - 2) |-> k + 2])>> }

Listings == UNION {[1..n -> PageLib] : n \in 1..MaxPages}

\* The genres upstream has for an artist.
ArtistGenres(a) == IF a % 3 = 1 THEN <<"house", "techno">>
                   ELSE IF a % 3 = 2 THEN <<"techno", "dub">>
                   ELSE <<>>

\* route.ts:5-16; 0 when the request passes both checks.
PlaylistTracksChecks(accessToken, playlistId) ==
  IF accessToken = "" THEN 401
  ELSE IF playlistId = "" THEN 400
  ELSE 0

\* Fault injection: the page loop keeping only the latest page.
KeepLatestPage(all, items) == items

\* route.ts:46
ConcatItems(all, items) == all \o items

\* Fault injection: genres collected in a list instead of a Set.
AppendGenre(gs, genre) == Append(gs, genre)

\* route.ts:134 (Set.add keeps the first occurrence)
AddGenre(gs, genre) == IF genre \in SeqToSet(gs) THEN gs ELSE Append(gs, genre)

\* route.ts:133-135
RECURSIVE AddGenres(_, _)
AddGenres(gs, g) == IF g = <<>> THEN gs ELSE AddGenres(AddGenre(gs, Head(g)), Tail(g))

\* route.ts:129-136, from the k-th artist on (gs is genresSet so far; the
\* comparison has the set evaluated before the loop goes on).
RECURSIVE GenresOfArtists(_, _, _, _)
GenresOfArtists(artists, map, gs, k) ==
  IF k > Len(artists) THEN gs
  ELSE LET g == IF artists[k] \in DOMAIN map THEN map[artists[k]] ELSE <<>>
           next == AddGenres(gs, g)
       IN IF next = gs THEN GenresOfArtists(artists, map, gs, k + 1)
          ELSE GenresOfArtists(artists, map, next, k + 1)

\* route.ts:99-102 and 117-120: items: allItems
PlainItems(items) ==
  [k \in 1..Len(items) |-> [item |-> items[k], has_genres |-> FALSE, artist_genres |-> <<>>]]

\* route.ts:125-142
ItemsWithGenres(items, map) ==
  [k \in 1..Len(items) |->
     IF items[k].track.null
     THEN [item |-> items[k], has_genres |-> FALSE, artist_genres |-> <<>>]
     ELSE [item |-> items[k], has_genres |-> TRUE,
           artist_genres |-> GenresOfArtists(items[k].track.artists, map, <<>>, 1)]]

\* route.ts:75-79, from the k-th artist of one track on
RECURSIVE AddArtistIds(_, _, _)
AddArtistIds(ids, artists, k) ==
  IF k > Len(artists) THEN ids
  ELSE IF artists[k] /= 0 /\ artists[k] \notin SeqToSet(ids)
  THEN AddArtistIds(Append(ids, artists[k]), artists, k + 1)
  ELSE AddArtistIds(ids, artists, k + 1)

\* route.ts:70-82: Array.from(artistIdSet), in order of first occurrence,
\* from the k-th item on
RECURSIVE CollectArtistIds(_, _, _)
CollectArtistIds(ids, items, k) ==
  IF k > Len(items) THEN ids
  ELSE IF items[k].track.null THEN CollectArtistIds(ids, items, k + 1)
  ELSE CollectArtistIds(AddArtistIds(ids, items[k].track.artists, 1), items, k + 1)

\* Fault injection: a failed page request answered with what was collected.
PartialPagesResponse(items) == [status |-> 200, items |-> PlainItems(items)]

\* route.ts:35 and 53
PageFailureResponse(items) == [status |-> 500, items |-> <<>>]

\* Fault injection: a failed lookup answered with the genres found so far.
PartialGenresResponse(items, map) == [status |-> 200, items |-> ItemsWithGenres(items, map)]

\* route.ts:99-102 and 117-120
ChunkFailureResponse(items, map) == [status |-> 200, items |-> PlainItems(items)]

\* route.ts:145-150
EnrichedResponse(items, map) == [status |-> 200, items |-> ItemsWithGenres(items, map)]

NoResponse == [status |-> 0, items |-> <<>>]
EmptyMap == [a \in {} |-> <<>>]

RouteInit ==
  /\ upstream \in Listings
  /\ routePc = "checks"
  /\ nextUrl = 0
  /\ allItems = <<>>
  /\ baseData = 0
  /\ artistIds = <<>>
  /\ artistGenresMap = EmptyMap
  /\ chunkStart = 1
  /\ response = NoResponse
  /\ pageRequests = 0
  /\ chunkRequests = 0
  /\ lookups = <<>>
  /\ lookedUp = {}
  /\ failure = "none"

\* No request is being served.
RouteIdle ==
  /\ upstream = <<>>
  /\ routePc = "done"
  /\ nextUrl = 0
  /\ allItems = <<>>
  /\ baseData = 0
  /\ artistIds = <<>>
  /\ artistGenresMap = EmptyMap
  /\ chunkStart = 1
  /\ response = NoResponse
  /\ pageRequests = 0
  /\ chunkRequests = 0
  /\ lookups = <<>>
  /\ lookedUp = {}
  /\ failure = "none"

\* route.ts:5-26: the checks, up to the first page request.
RouteStart(playlistId) ==
  /\ routePc = "checks"
  /\ LET status == PlaylistTracksChecks(AccessToken(cookieJar), playlistId)
     IN IF status /= 0
        THEN /\ routePc' = "done"
             /\ response' = [status |-> status, items |-> <<>>]
             /\ UNCHANGED <<nextUrl, pageRequests>>
        ELSE /\ routePc' = "page"
             /\ nextUrl' = 1
             /\ pageRequests' = 1
             /\ UNCHANGED response
  /\ UNCHANGED <<upstream, allItems, baseData, artistIds, artistGenresMap, chunkStart,
                 chunkRequests, lookups, lookedUp, failure>>

\* Fault injection: a lookup that takes one id more than the step of the
\* loop.
WideChunk(ids, i) == SubSeq(ids, i, Min(i + ChunkSize, Len(ids)))

\* The artist ids of the lookup that starts at index i: route.ts:89.
Chunk(ids, i) == SubSeq(ids, i, Min(i + ChunkSize - 1, Len(ids)))

\* Fault injection: a loop that takes the first page for the last.
FirstPageOnly(pages, url) == 0

\* pageData.next of page url, 0 for null: route.ts:49
NextCursor(pages, url) == IF url < Len(pages) THEN url + 1 ELSE 0

\* A page request has settled: route.ts:30-50 and, after the last page,
\* route.ts:57-90 (or 57-150 when there is no artist to look up).  outcome
\* is "ok", "notOk" (a non-OK response) or "throw".
PageFetched(outcome) ==
  /\ routePc = "page"
  /\ IF outcome /= "ok"
     THEN /\ routePc' = "done"
          /\ response' = PageFailureResponse(allItems)
          /\ failure' = "page"
          /\ UNCHANGED <<nextUrl, allItems, baseData, artistIds, chunkRequests, lookups,
                         pageRequests>>
     ELSE LET next == NextCursor(upstream, nextUrl)
          IN \E items \in {ConcatItems(allItems, upstream[nextUrl])} :
             \E ids \in {CollectArtistIds(<<>>, items, 1)} :
             /\ allItems' = items
             /\ baseData' = IF baseData = 0 THEN nextUrl ELSE baseData
             /\ nextUrl' = next
             /\ UNCHANGED failure
             /\ IF next /= 0
                THEN /\ pageRequests' = pageRequests + 1
                     /\ UNCHANGED <<routePc, response, artistIds, chunkRequests, lookups>>
                ELSE /\ artistIds' = ids
                     /\ UNCHANGED pageRequests
                     /\ IF Len(ids) > 0
                        THEN /\ routePc' = "artists"
                             /\ chunkRequests' = 1
                             /\ lookups' = <<Chunk(ids, chunkStart)>>
                             /\ UNCHANGED response
                        ELSE /\ routePc' = "done"
                             /\ response' = EnrichedResponse(items, artistGenresMap)
                             /\ UNCHANGED <<chunkRequests, lookups>>
  /\ UNCHANGED <<upstream, artistGenresMap, chunkStart, lookedUp>>

\* An artist lookup has settled: route.ts:95-113 and, after the last chunk,
\* route.ts:125-150.  outcome is "ok", "sparse" (OK, with null in place of
\* the artists of even id), "notOk" or "throw".
ArtistsFetched(outcome) ==
  /\ routePc = "artists"
  /\ IF outcome \in {"notOk", "throw"}
     THEN /\ routePc' = "done"
          /\ response' = ChunkFailureResponse(allItems, artistGenresMap)
          /\ failure' = "chunk"
          /\ UNCHANGED <<artistGenresMap, chunkStart, chunkRequests, lookups, lookedUp>>
     ELSE LET chunk == Chunk(artistIds, chunkStart)
              found == {a \in SeqToSet(chunk) : outcome = "ok" \/ a % 2 = 1}
              i == chunkStart + ChunkSize
          IN \E map \in {[a \in DOMAIN artistGenresMap \cup found |->
                           IF a \in found THEN ArtistGenres(a) ELSE artistGenresMap[a]]} :
             /\ artistGenresMap' = map
             /\ lookedUp' = lookedUp \cup found
             /\ chunkStart' = i
             /\ UNCHANGED failure
             /\ IF i <= Len(artistIds)
                THEN /\ chunkRequests' = chunkRequests + 1
                     /\ lookups' = Append(lookups, Chunk(artistIds, i))
                     /\ UNCHANGED <<routePc, response>>
                ELSE /\ routePc' = "done"
                     /\ response' = EnrichedResponse(allItems, map)
                     /\ UNCHANGED <<chunkRequests, lookups>>
  /\ UNCHANGED <<upstream, nextUrl, allItems, baseData, artistIds, pageRequests>>

(***************************************************************************)
(* Logout, the OAuth callback and the protected endpoints.  Each is one    *)
(* request; the browser applies the Set-Cookie headers of the response.    *)
(***************************************************************************)
DefaultExpiresIn == 3600
RefreshMaxAge == 2592000

SetCookie(name, value, maxAge) == [name |-> name, value |-> value, maxAge |-> maxAge]

\* What the browser does with the Set-Cookie headers of a response.
ApplySetCookies(jar, headers) ==
  [n \in CookieNames |->
     IF \E h \in headers : h.name = n
     THEN LET h == CHOOSE x \in headers : x.name = n
          IN IF h.maxAge <= 0 THEN Absent ELSE h.value
     ELSE jar[n]]

\* Fault injection: a logout that leaves the access token in place.
LogoutRefreshOnly == {SetCookie("refresh", "", 0)}

\* logout/route.ts:11-25
LogoutCookies == {SetCookie("access", "", 0), SetCookie("refresh", "", 0)}

\* callback/route.ts:96-112
CallbackCookies(accessToken, refreshToken) ==
  {SetCookie("access", accessToken, DefaultExpiresIn)}
    \cup (IF refreshToken /= "" THEN {SetCookie("refresh", refreshToken, RefreshMaxAge)} ELSE {})

NoCall ==
  [endpoint |-> "none", status |-> 0, upstream |-> FALSE, authed |-> FALSE, params |-> "ok"]
Result(status, up) == [status |-> status, upstream |-> up]

\* playlists/route.ts:19-63.  up is the outcome of the upstream calls: "ok",
\* "fail" or "unauthorized".
PlaylistsGET(accessToken, up) ==
  IF accessToken = "" THEN Result(401, FALSE)
  ELSE IF up = "ok" THEN Result(200, TRUE)
  ELSE IF up = "unauthorized" THEN Result(401, TRUE)
  ELSE Result(500, TRUE)

\* playlist-tracks/route.ts: the checks, then the requests modelled by
\* PageFetched and ArtistsFetched, here reduced to whether the pagination
\* succeeds.
PlaylistTracksGET(accessToken, playlistId, up) ==
  LET status == PlaylistTracksChecks(accessToken, playlistId)
  IN IF status /= 0 THEN Result(status, FALSE)
     ELSE IF up = "ok" THEN Result(200, TRUE)
     ELSE Result(500, TRUE)

\* logout/route.ts:34-109 (create-playlist).  body is "ok", "missing" (a JSON
\* object with no usable name) or "malformed" (no body, or one that is not a
\* JSON object: req.json() or the destructuring of its result throws).
CreatePlaylistPOST(accessToken, body, up) ==
  IF accessToken = "" THEN Result(401, FALSE)
  ELSE IF body = "malformed" THEN Result(500, FALSE)
  ELSE IF body = "missing" THEN Result(400, FALSE)
  ELSE IF up = "ok" THEN Result(200, TRUE)
  ELSE Result(500, TRUE)

\* logout/route.ts:115-185 (destination-add).  A failed duplicate check is
\* followed by the add; up is the outcome of the add.
DestinationAddPOST(accessToken, body, up) ==
  IF accessToken = "" THEN Result(401, FALSE)
  ELSE IF body = "malformed" THEN Result(500, FALSE)
  ELSE IF body = "missing" THEN Result(400, FALSE)
  ELSE IF up = "ok" THEN Result(200, TRUE)
  ELSE Result(500, TRUE)

\* remove-from-playlist/route.ts:5-47
RemoveFromPlaylistPOST(accessToken, body, up) ==
  IF accessToken = "" THEN Result(401, FALSE)
  ELSE IF body = "malformed" THEN Result(500, FALSE)
  ELSE IF body = "missing" THEN Result(400, FALSE)
  ELSE IF up = "ok" THEN Result(200, TRUE)
  ELSE Result(500, TRUE)

Endpoints == {"playlists", "playlist-tracks", "create-playlist", "destination-add",
              "remove-from-playlist"}

AuthInit ==
  /\ cookieJar = NoCookies
  /\ setCookies = {}
  /\ sinceLogout = FALSE
  /\ lastCall = NoCall

\* The session the client runs in.
AuthLoggedIn ==
  /\ cookieJar = [access |-> "tokenA", refresh |-> "tokenA"]
  /\ setCookies = {}
  /\ sinceLogout = FALSE
  /\ lastCall = NoCall

\* POST /api/auth/spotify/logout: logout/route.ts:4-28.
Logout ==
  /\ setCookies' = LogoutCookies
  /\ cookieJar' = ApplySetCookies(cookieJar, LogoutCookies)
  /\ sinceLogout' = TRUE
  /\ lastCall' = NoCall

\* GET /api/auth/spotify/callback: callback/route.ts:4-121.  outcome is
\* "refused" (error, no code, or missing configuration: 25-48), "failed"
\* (token exchange not OK or thrown: 70-77, 115-120) or "ok".
Callback(outcome, accessToken, refreshToken) ==
  /\ setCookies' = IF outcome = "ok" THEN CallbackCookies(accessToken, refreshToken) ELSE {}
  /\ cookieJar' = ApplySetCookies(cookieJar, setCookies')
  /\ sinceLogout' = IF outcome = "ok" THEN FALSE ELSE sinceLogout
  /\ lastCall' = IF outcome = "ok" THEN NoCall ELSE lastCall

\* The browser drops a cookie whose max-age has run out.
CookieExpires(name) ==
  /\ cookieJar[name] /= Absent
  /\ cookieJar' = [cookieJar EXCEPT ![name] = Absent]
  /\ UNCHANGED <<setCookies, sinceLogout, lastCall>>

\* lastCall records the last answer of a protected endpoint, with what the
\* request carried: authed, whether it had the access-token cookie, and
\* params, "ok", "missing" or "malformed".
Called(endpoint, params, result) ==
  /\ lastCall' = [endpoint |-> endpoint, status |-> result.status,
                  upstream |-> result.upstream,
                  authed |-> AccessToken(cookieJar) /= "", params |-> params]
  /\ UNCHANGED <<cookieJar, setCookies, sinceLogout>>

CallPlaylists(up) == Called("playlists", "ok", PlaylistsGET(AccessToken(cookieJar), up))

CallPlaylistTracks(playlistId, up) ==
  Called("playlist-tracks", IF playlistId = "" THEN "missing" ELSE "ok",
         PlaylistTracksGET(AccessToken(cookieJar), playlistId, up))

CallCreatePlaylist(body, up) ==
  Called("create-playlist", body, CreatePlaylistPOST(AccessToken(cookieJar), body, up))

CallDestinationAdd(body, up) ==
  Called("destination-add", body, DestinationAddPOST(AccessToken(cookieJar), body, up))

CallRemoveFromPlaylist(body, up) ==
  Called("remove-from-playlist", body, RemoveFromPlaylistPOST(AccessToken(cookieJar), body, up))

(***************************************************************************)
(* POST /api/destination-add (logout/route.ts:115-185), served for several *)
(* requests at a time.  A track URI is a number; a request is [pc, uri,    *)
(* seen, result]: pc is "idle", "check" (the duplicate check is pending),  *)
(* "add" (the add call is pending) or "done"; seen is what its duplicate   *)
(* check returned ("found", "absent" or "failed").                         *)
(***************************************************************************)
MaxAddRequests == 2
DupWindow == 100

TrackUris == {1, 2}
Filler(n) == [k \in 1..n |-> 1000 + k]

\* The destination playlists: empty, holding track 1, holding track 1 as
\* the last track the duplicate check sees, and as the first it does not.
DestinationLib ==
  { <<>>, <<1>>, Filler(DupWindow - 1) \o <<1>>, Filler(DupWindow) \o <<1>> }

IdleReq == [pc |-> "idle", uri |-> 0, seen |-> "none", result |-> "none"]

AddIdle ==
  /\ playlistUris = <<>>
  /\ addReqs = [r \in 1..MaxAddRequests |-> IdleReq]
  /\ failedAdds = {}

AddInit ==
  /\ playlistUris \in DestinationLib
  /\ addReqs = [r \in 1..MaxAddRequests |-> IdleReq]
  /\ failedAdds = {}

\* getPlaylistTracks(playlistId, {limit: 100, offset: 0}): route.ts:143-147
FirstTracks(uris) == SubSeq(uris, 1, Min(DupWindow, Len(uris)))

\* route.ts:149-152
AlreadyThere(uris, trackUri) == trackUri \in SeqToSet(FirstTracks(uris))

\* route.ts:116-147: the checks pass and the duplicate check is issued.
AddRequest(r, trackUri) ==
  /\ addReqs[r].pc = "idle"
  /\ addReqs' = [addReqs EXCEPT ![r] = [pc |-> "check", uri |-> trackUri,
                                        seen |-> "none", result |-> "none"]]
  /\ UNCHANGED playlistUris

\* The duplicate check has settled: route.ts:149-169.  A check that threw
\* is logged and followed by the add.
DupCheckDone(r, ok) ==
  /\ addReqs[r].pc = "check"
  /\ LET seen == IF ~ok THEN "failed"
                 ELSE IF AlreadyThere(playlistUris, addReqs[r].uri) THEN "found"
                 ELSE "absent"
     IN addReqs' = [addReqs EXCEPT ![r] =
                      IF seen = "found"
                      THEN [@ EXCEPT !.pc = "done", !.seen = seen, !.result = "duplicate"]
                      ELSE [@ EXCEPT !.pc = "add", !.seen = seen]]
  /\ UNCHANGED playlistUris

\* The add call has settled: route.ts:169-184.  Upstream appends the track.
AddDone(r, ok) ==
  /\ addReqs[r].pc = "add"
  /\ playlistUris' = IF ok THEN Append(playlistUris, addReqs[r].uri) ELSE playlistUris
  /\ addReqs' = [addReqs EXCEPT ![r] = [@ EXCEPT !.pc = "done",
                                                 !.result = IF ok THEN "added" ELSE "error"]]

\* The rest of the system while the client runs.
ServerIdle == UNCHANGED <<authVars, routeVars, addVars>>

PreviewNext ==
  \/ \E t \in TrackIds, bpm \in BOOLEAN : PreviewClick(t, bpm) /\ ServerIdle
  \/ \E t \in TrackIds : SelectTrack(t) /\ ServerIdle
  \/ \E d \in {1, -1}, bpm \in BOOLEAN : KeyArrow(d, bpm) /\ ServerIdle
  \/ \E bpm \in BOOLEAN : KeySpace(bpm) /\ ServerIdle
  \/ \E a \in attempts : ThrottleDone(a) /\ ServerIdle
  \/ \E a \in attempts, res \in {"url", "none", "error"}, bpm \in BOOLEAN :
       FetchDone(a, res, bpm) /\ ServerIdle
  \/ \E a \in attempts : PlayResolved(a) /\ ServerIdle
  \/ \E a \in attempts : PlayRejected(a) /\ ServerIdle
  \/ BpmDetected /\ ServerIdle
  \/ TimePasses /\ ServerIdle
  \/ \E pl \in PlaylistIds : SelectPlaylist(pl) /\ ServerIdle
  \/ \E pl \in PlaylistIds, ok \in BOOLEAN : TracksLoaded(pl, ok) /\ ServerIdle

\* Sessions of preview playback, with every playlist owned by the user.
PreviewInit ==
  ClientInit /\ ownedPlaylists = PlaylistIds /\ AuthLoggedIn /\ RouteIdle /\ AddIdle

SpecPreview == PreviewInit /\ [][PreviewNext]_vars

\* Sessions in which neither a preview is started by hand nor auto-remove
\* is switched on: playlist and track selection, slot configuration and
\* sends.
SendNext ==
  \/ \E t \in TrackIds : SelectTrack(t) /\ ServerIdle
  \/ \E d \in {1, -1} : KeyArrow(d, FALSE) /\ ServerIdle
  \/ \E pl \in PlaylistIds : SelectPlaylist(pl) /\ ServerIdle
  \/ \E pl \in PlaylistIds, ok \in BOOLEAN : TracksLoaded(pl, ok) /\ ServerIdle
  \/ \E s \in Slots, v \in {"", "__new__"} \cup PlaylistIds :
       DestinationSelectChange(s, v) /\ ServerIdle
  \/ \E s \in Slots : DesktopSendClick(s) /\ ServerIdle
  \/ \E s \in Slots : MobileSendClick(s) /\ ServerIdle
  \/ \E s \in Slots : KeySend(s) /\ ServerIdle
  \/ \E i \in 1..MaxSends, ok \in BOOLEAN : AddResponse(i, ok) /\ ServerIdle

SendInit == ClientInit /\ AuthLoggedIn /\ RouteIdle /\ AddIdle

SpecSend == SendInit /\ [][SendNext]_vars

\* Sessions with auto-remove: one source playlist, previews by click (one
\* started by hand at a time), slot configuration, the checkbox, sends by
\* click and by number key (one in flight at a time), and the responses of
\* the add and remove calls.  Search requests are not answered here.
RemoveNext ==
  \/ \E t \in TrackIds : attempts = {} /\ PreviewClick(t, FALSE) /\ ServerIdle
  \/ \E t \in TrackIds : SelectTrack(t) /\ ServerIdle
  \/ \E a \in attempts : PlayResolved(a) /\ ServerIdle
  \/ \E a \in attempts : a.aborted /\ PlayRejected(a) /\ ServerIdle
  \/ \E pl \in PlaylistIds : selectedPlaylistId = Null /\ SelectPlaylist(pl) /\ ServerIdle
  \/ \E pl \in PlaylistIds : TracksLoaded(pl, TRUE) /\ ServerIdle
  \/ \E s \in Slots, v \in PlaylistIds : DestinationSelectChange(s, v) /\ ServerIdle
  \/ ToggleAutoRemove /\ ServerIdle
  \/ \E s \in Slots : sends = <<>> /\ DesktopSendClick(s) /\ ServerIdle
  \/ \E s \in Slots : sends = <<>> /\ KeySend(s) /\ ServerIdle
  \/ \E i \in 1..MaxSends, ok \in BOOLEAN : AddResponse(i, ok) /\ ServerIdle
  \/ \E i \in 1..MaxSends, ok \in BOOLEAN : RemoveResponse(i, ok) /\ ServerIdle

RemoveInit == ClientInit /\ AuthLoggedIn /\ RouteIdle /\ AddIdle

SpecRemove == RemoveInit /\ [][RemoveNext]_vars

\* One playlist-tracks request, from a browser with or without a session.
\* Sessions in which the playlist is changed while sends with auto-remove are
\* in flight: playlist and track selection, arrow keys, one configuration of
\* each slot, the checkbox switched on, sends by click and by number key,
\* and the responses of the add and remove calls.  No preview is started by
\* hand and no preview request is answered.
AdvanceNext ==
  \/ \E pl \in PlaylistIds : SelectPlaylist(pl) /\ ServerIdle
  \/ \E pl \in PlaylistIds : TracksLoaded(pl, TRUE) /\ ServerIdle
  \/ \E t \in TrackIds : SelectTrack(t) /\ ServerIdle
  \/ \E d \in {1, -1} : KeyArrow(d, FALSE) /\ ServerIdle
  \/ \E s \in Slots, v \in PlaylistIds :
       destinations[s].mode = "none" /\ DestinationSelectChange(s, v) /\ ServerIdle
  \/ ~autoRemoveOnSend /\ ToggleAutoRemove /\ ServerIdle
  \/ \E s \in Slots : DesktopSendClick(s) /\ ServerIdle
  \/ \E s \in Slots : KeySend(s) /\ ServerIdle
  \/ \E i \in 1..MaxSends, ok \in BOOLEAN : AddResponse(i, ok) /\ ServerIdle
  \/ \E i \in 1..MaxSends, ok \in BOOLEAN : RemoveResponse(i, ok) /\ ServerIdle

\* Sessions with auto-remove in which the destination-add call may fail: as
\* above, with the first failed call of a session entered in failedAdds.
FailNext ==
  \/ \E t \in TrackIds : attempts = {} /\ PreviewClick(t, FALSE) /\ ServerIdle
  \/ \E t \in TrackIds : SelectTrack(t) /\ ServerIdle
  \/ \E a \in attempts : PlayResolved(a) /\ ServerIdle
  \/ \E pl \in PlaylistIds : selectedPlaylistId = Null /\ SelectPlaylist(pl) /\ ServerIdle
  \/ \E pl \in PlaylistIds : TracksLoaded(pl, TRUE) /\ ServerIdle
  \/ \E s \in Slots, v \in PlaylistIds :
       destinations[s].mode = "none" /\ DestinationSelectChange(s, v) /\ ServerIdle
  \/ ToggleAutoRemove /\ ServerIdle
  \/ \E s \in Slots : sends = <<>> /\ DesktopSendClick(s) /\ ServerIdle
  \/ \E s \in Slots : sends = <<>> /\ KeySend(s) /\ ServerIdle
  \/ \E i \in 1..MaxSends : AddResponse(i, TRUE) /\ ServerIdle
  \/ \E i \in 1..MaxSends :
       /\ AddResponse(i, FALSE)
       /\ failedAdds' = IF failedAdds = {}
                        THEN {[slot |-> sends[i].slot, track |-> sends[i].track]}
                        ELSE failedAdds
       /\ UNCHANGED <<authVars, routeVars, playlistUris, addReqs>>
  \/ \E i \in 1..MaxSends, ok \in BOOLEAN : RemoveResponse(i, ok) /\ ServerIdle

FailInit == ClientInit /\ AuthLoggedIn /\ RouteIdle /\ AddIdle

SpecFail == FailInit /\ [][FailNext]_vars

AdvanceInit == ClientInit /\ AuthLoggedIn /\ RouteIdle /\ AddIdle

SpecAdvance == AdvanceInit /\ [][AdvanceNext]_vars

TracksNext ==
  \/ \E playlistId \in {"", "pA"} :
       RouteStart(playlistId) /\ UNCHANGED <<clientVars, authVars, addVars>>
  \/ \E outcome \in {"ok", "notOk", "throw"} :
       PageFetched(outcome) /\ UNCHANGED <<clientVars, authVars, addVars>>
  \/ \E outcome \in {"ok", "sparse", "notOk", "throw"} :
       ArtistsFetched(outcome) /\ UNCHANGED <<clientVars, authVars, addVars>>

TracksInit ==
  /\ ClientInit /\ ownedPlaylists = PlaylistIds /\ (AuthInit \/ AuthLoggedIn) /\ RouteInit
  /\ AddIdle

SpecTracks == TracksInit /\ [][TracksNext]_vars

\* The listings of one page, and those of several pages of tracks with at
\* most two artists each.
FairListings ==
  {l \in Listings :
     \/ Len(l) = 1
     \/ \A n \in 1..Len(l) : \A k \in 1..Len(l[n]) : Len(l[n][k].track.artists) <= 2}

TracksFairInit == TracksInit /\ upstream \in FairListings

\* The same requests when every upstream request the handler awaits settles.
SpecTracksFair == TracksFairInit /\ [][TracksNext]_vars /\ WF_vars(TracksNext)

\* Logins, logouts, cookie expiry and calls to the protected endpoints.
Outcomes == {"ok", "fail", "unauthorized"}
Bodies == {"ok", "missing", "malformed"}

AuthNext ==
  \/ Logout /\ UNCHANGED <<clientVars, routeVars, addVars>>
  \/ \E outcome \in {"refused", "failed", "ok"}, at \in Tokens, rt \in Tokens \cup {""} :
       Callback(outcome, at, rt) /\ UNCHANGED <<clientVars, routeVars, addVars>>
  \/ \E name \in CookieNames : CookieExpires(name) /\ UNCHANGED <<clientVars, routeVars, addVars>>
  \/ \E up \in Outcomes : CallPlaylists(up) /\ UNCHANGED <<clientVars, routeVars, addVars>>
  \/ \E playlistId \in {"", "pA"}, up \in Outcomes :
       CallPlaylistTracks(playlistId, up) /\ UNCHANGED <<clientVars, routeVars, addVars>>
  \/ \E body \in Bodies, up \in Outcomes :
       CallCreatePlaylist(body, up) /\ UNCHANGED <<clientVars, routeVars, addVars>>
  \/ \E body \in Bodies, up \in Outcomes :
       CallDestinationAdd(body, up) /\ UNCHANGED <<clientVars, routeVars, addVars>>
  \/ \E body \in Bodies, up \in Outcomes :
       CallRemoveFromPlaylist(body, up) /\ UNCHANGED <<clientVars, routeVars, addVars>>

ServerInit ==
  ClientInit /\ ownedPlaylists = PlaylistIds /\ AuthInit /\ RouteIdle /\ AddIdle

SpecAuth == ServerInit /\ [][AuthNext]_vars

\* Requests to add a track to one destination playlist, from a session.
AddNext ==
  \/ \E r \in 1..MaxAddRequests, u \in TrackUris :
       AddRequest(r, u) /\ UNCHANGED <<clientVars, authVars, routeVars, failedAdds>>
  \/ \E r \in 1..MaxAddRequests, ok \in BOOLEAN :
       DupCheckDone(r, ok) /\ UNCHANGED <<clientVars, authVars, routeVars, failedAdds>>
  \/ \E r \in 1..MaxAddRequests, ok \in BOOLEAN :
       AddDone(r, ok) /\ UNCHANGED <<clientVars, authVars, routeVars, failedAdds>>

AddSpecInit ==
  ClientInit /\ ownedPlaylists = PlaylistIds /\ AuthLoggedIn /\ RouteIdle /\ AddInit

SpecAdd == AddSpecInit /\ [][AddNext]_vars

(***************************************************************************)
(* Properties of the preview race guard.                                   *)
(***************************************************************************)
StaleWrites == {"staleFollow", "staleAudio", "stalePlaying"}

\* C1: playingTrackId is written with a track id only by the resolved play()
\* of the attempt whose captured request id equals previewRequestIdRef: a
\* step that puts a track id into playingTrackId consumes a pending play of
\* that track whose id is the current counter, and no write by an attempt
\* whose id differs from the counter has ever happened.
C1_OnlyCurrentAttemptSetsPlaying ==
  [][/\ (playingTrackId' /= Null /\ playingTrackId' /= playingTrackId) =>
          \E a \in attempts : /\ a.pc = "play" /\ ~a.aborted
                              /\ a.track = playingTrackId'
                              /\ a.id = previewRequestIdRef
                              /\ previewRequestIdRef' = previewRequestIdRef
                              /\ a \notin attempts'
      /\ "stalePlaying" \notin history']_vars

\* C1 witness: the play() of a superseded attempt has resolved without
\* writing, and a later attempt for another track has set the playing state
\* while it is the current one.
C1_Witness ==
  /\ "skippedPlaying" \in history
  /\ playingTrackId /= Null
  /\ audio.src = playingTrackId /\ audio.playing

\* C2: an attempt whose captured id differs from previewRequestIdRef writes
\* neither the audio element, nor playingTrackId, nor followPlaybackRef.
C2_StaleAttemptWritesNothing == history \cap StaleWrites = {}

(***************************************************************************)
(* Properties of the send path.                                            *)
(***************************************************************************)
\* C3: while the target playlist of a slot is unchanged, at most one
\* destination-add call that is not answered with a failure is issued for
\* a track and that slot.
C3_AtMostOneAddPerSlotAndTrack ==
  \A s \in Slots, t \in TrackIds : addCount[s][t] <= 1

\* C4: no destination-add call carries the id of the selected source
\* playlist, and none is issued for a slot that is not in mode "existing"
\* with a playlistId.
C4_NoAddToSourceNorFromUnsetSlot ==
  history \cap {"addToSource", "addFromUnsetSlot"} = {}

\* C5: a slot whose playlistId is the selected source playlist has its
\* send button disabled in the desktop grid (when the grid is rendered)
\* and in the mobile pad.
C5_SourceSlotDisabledEverywhere ==
  \A s \in Slots :
    (selectedPlaylistId /= Null /\ destinations[s].playlistId = selectedPlaylistId) =>
      /\ DesktopGridShown => ~DesktopEnabled(destinations[s])
      /\ ~MobileEnabled(destinations[s])

(***************************************************************************)
(* Properties of GET /api/playlist-tracks.                                 *)
(***************************************************************************)
RECURSIVE Flatten(_)
Flatten(pages) == IF pages = <<>> THEN <<>> ELSE Head(pages) \o Flatten(Tail(pages))

\* The items upstream lists, page after page, and the upstream items the
\* response carries.
UpstreamItems == Flatten(upstream)
ResponseItems == [k \in 1..Len(response.items) |-> response.items[k].item]

AllPagesReturned == routePc = "done" /\ pageRequests = Len(upstream) /\ failure /= "page"

\* C6: when every page of the listing has been returned, the response is a
\* success whose items are page 1 ++ ... ++ page N, each upstream item once
\* and in upstream order, whether the artist lookups succeed or not.
C6_ItemsAreConcatenationOfPages ==
  AllPagesReturned => response.status = 200 /\ ResponseItems = UpstreamItems

\* C6 witness: a two-page listing of different non-empty pages answered
\* with genres attached.
C6_Witness ==
  /\ AllPagesReturned /\ failure = "none"
  /\ Len(upstream) = 2 /\ upstream[1] /= <<>> /\ upstream[2] /= <<>>
  /\ upstream[1] /= upstream[2]
  /\ \E k \in 1..Len(response.items) : response.items[k].has_genres

NoDuplicates(s) == \A i, j \in 1..Len(s) : i /= j => s[i] /= s[j]

\* The genres the lookups returned for the artists of a track.
ReturnedGenres(artists) ==
  UNION {SeqToSet(ArtistGenres(a)) : a \in SeqToSet(artists) \cap lookedUp}

Enriched == routePc = "done" /\ response.status = 200 /\ failure = "none"

\* C7: after a successful enrichment every item with a track carries
\* artist_genres, a duplicate-free list of exactly the genres the lookups
\* returned for the artists of the track; so two tracks with the same
\* artists carry the same genres, and every genre returned for an artist
\* is on every track of that artist.
C7_GenresAreUnionOverArtists ==
  Enriched =>
    \A k \in 1..Len(response.items) :
      LET r == response.items[k]
      IN ~r.item.track.null =>
           /\ r.has_genres
           /\ NoDuplicates(r.artist_genres)
           /\ SeqToSet(r.artist_genres) = ReturnedGenres(r.item.track.artists)
           /\ \A a \in SeqToSet(r.item.track.artists) \cap lookedUp :
                SeqToSet(ArtistGenres(a)) \subseteq SeqToSet(r.artist_genres)
           /\ \A j \in 1..Len(response.items) :
                LET q == response.items[j]
                IN (/\ ~q.item.track.null
                    /\ SeqToSet(q.item.track.artists) = SeqToSet(r.item.track.artists))
                   => SeqToSet(q.artist_genres) = SeqToSet(r.artist_genres)

\* C7 witness: two tracks list the same two artists in different order; the
\* artists share a genre, and both tracks carry the three genres once.
C7_Witness ==
  /\ Enriched
  /\ \E j, k \in 1..Len(response.items) :
       LET q == response.items[j]
           r == response.items[k]
       IN /\ q.item.track.artists /= r.item.track.artists
          /\ SeqToSet(q.item.track.artists) = SeqToSet(r.item.track.artists)
          /\ SeqToSet(r.item.track.artists) \subseteq lookedUp
          /\ Len(r.artist_genres) = 3 /\ Len(q.artist_genres) = 3
          /\ q.artist_genres /= r.artist_genres

\* C8: once an artist lookup has failed the handler has returned a success
\* with every upstream item, no item carries artist_genres, and no further
\* request goes upstream.
C8_LookupFailureDegrades ==
  /\ [](failure = "chunk" =>
          /\ routePc = "done"
          /\ response.status = 200
          /\ ResponseItems = UpstreamItems
          /\ \A k \in 1..Len(response.items) : ~response.items[k].has_genres)
  /\ [][failure = "chunk" =>
          chunkRequests' = chunkRequests /\ pageRequests' = pageRequests]_vars

\* C8 witness: the second lookup fails after the first has returned genres.
C8_Witness ==
  /\ failure = "chunk" /\ chunkRequests = 2
  /\ \E a \in lookedUp : ArtistGenres(a) /= <<>>
  /\ response.items /= <<>>

\* C9: once a page request has failed the handler has returned status 500
\* without items, no artist lookup has been issued, and no further request
\* goes upstream.
C9_PageFailureFailsRequest ==
  /\ [](failure = "page" =>
          /\ routePc = "done"
          /\ response.status = 500
          /\ response.items = <<>>
          /\ chunkRequests = 0)
  /\ [][failure = "page" =>
          chunkRequests' = chunkRequests /\ pageRequests' = pageRequests]_vars

\* C9 witness: the second page request fails after the first page has
\* delivered items.
C9_Witness ==
  /\ failure = "page" /\ pageRequests = 2 /\ Len(upstream) = 2
  /\ allItems /= <<>>
  /\ response.status = 500

(***************************************************************************)
(* Properties of the session cookies.                                      *)
(***************************************************************************)
\* C10: from the response of logout until a callback succeeds, the response
\* that set cookies last cleared both (empty value, max-age 0), the browser
\* holds neither, and every call to a protected endpoint has been answered
\* with 401 without an upstream call.
C10_LogoutClearsSession ==
  sinceLogout =>
    /\ setCookies /= {} =>
         \A n \in CookieNames :
           \E h \in setCookies : h.name = n /\ h.value = "" /\ h.maxAge = 0
    /\ cookieJar = NoCookies
    /\ lastCall.endpoint \in Endpoints => lastCall.status = 401 /\ ~lastCall.upstream

\* C10 witness: right after a logout a protected endpoint has been called
\* with well-formed parameters and has answered 401.
C10_Witness ==
  /\ sinceLogout
  /\ setCookies = {SetCookie("access", "", 0), SetCookie("refresh", "", 0)}
  /\ lastCall = [endpoint |-> "destination-add", status |-> 401, upstream |-> FALSE,
                 authed |-> FALSE, params |-> "ok"]

(***************************************************************************)
(* Properties of the request counter, the suspension points, the audio     *)
(* element, the preview cache and the throttle.                            *)
(***************************************************************************)
InFlightWinners == {a \in attempts : a.id = previewRequestIdRef}

\* C11: previewRequestIdRef never decreases; an attempt that appears among
\* the attempts in flight has captured a value greater than the counter
\* before the step, hence greater than every id captured earlier (no id in
\* flight exceeds the counter); and at most one attempt in flight has
\* captured the current value of the counter.
C11_CounterOrdersAttempts ==
  /\ [][/\ previewRequestIdRef' >= previewRequestIdRef
        /\ \A a \in attempts' :
             a.id \notin {b.id : b \in attempts} => a.id > previewRequestIdRef]_vars
  /\ [](/\ \A a \in attempts : a.id <= previewRequestIdRef
        /\ Cardinality(InFlightWinners) <= 1)

\* Two attempts in flight, the later of which holds the current counter.
C11_Witness ==
  \E a, b \in attempts : a.id < b.id /\ b.id = previewRequestIdRef

\* C12: an attempt whose captured id differs from the counter takes no
\* action after it resumes: it issues no search request after the throttle
\* delay, and neither loads the audio element nor sets playingTrackId after
\* the search response or the start of playback.
C12_SupersededAttemptDoesNothing ==
  history \cap {"staleLookup", "staleAudio", "stalePlaying"} = {}

\* C13: the audio element, once created, is never replaced, and a step that
\* loads a preview into it has torn it down first: every play() pending from
\* an earlier load has been rejected, the only pending play is that of the
\* attempt that loaded the element, and a playing element has a src.
C13_OneElementTornDownBeforeLoad ==
  /\ [][audio.exists => audio'.exists]_vars
  /\ [](/\ \A a \in attempts :
             (a.pc = "play" /\ ~a.aborted) =>
               /\ audio.exists /\ audio.src = a.track /\ audio.loop
               /\ \A b \in attempts : (b.pc = "play" /\ ~b.aborted) => b = a
        /\ audio.playing => audio.exists /\ audio.src /= Null)

\* A second preview has been loaded while the play() of the first was
\* pending.
C13_Witness ==
  /\ audio.src /= Null /\ audio.playing
  /\ \E a, b \in attempts : /\ a.pc = "play" /\ a.aborted /\ a.track /= audio.src
                            /\ b.pc = "play" /\ ~b.aborted /\ b.track = audio.src

\* C16: no preview attempt that starts on a track whose search has completed
\* (the cache holds a URL or "no preview available") issues a search request.
C16_NoLookupOnceCached == "repeatLookup" \notin history

\* C17: no search request is issued less than minGap after the previous one.
C17_LookupsAreSpaced == "fetchTooSoon" \notin history

(***************************************************************************)
(* Properties of the batched artist lookups.                               *)
(***************************************************************************)
\* The distinct artist ids the playlist references.
ReferencedArtists ==
  UNION {SeqToSet(it.track.artists) : it \in {x \in SeqToSet(UpstreamItems) : ~x.track.null}}
    \ {0}

CeilDiv(n, d) == (n + d - 1) \div d

\* C18: no lookup carries more than ChunkSize ids or an id twice, no id is
\* in two lookups, and only referenced ids are looked up; when the request
\* has been answered after every lookup succeeded, the number of lookups is
\* ceil(n / ChunkSize) for the n distinct ids referenced (none for n = 0),
\* and each of them is in exactly one lookup.
C18_LookupsPartitionArtistIds ==
  /\ Len(lookups) = chunkRequests
  /\ \A k \in 1..Len(lookups) :
       /\ Len(lookups[k]) \in 1..ChunkSize
       /\ NoDuplicates(lookups[k])
       /\ SeqToSet(lookups[k]) \subseteq ReferencedArtists
       /\ \A j \in 1..Len(lookups) : j /= k => SeqToSet(lookups[j]) \cap SeqToSet(lookups[k]) = {}
  /\ (routePc = "done" /\ failure = "none" /\ response.status = 200) =>
       /\ Len(lookups) = CeilDiv(Cardinality(ReferencedArtists), ChunkSize)
       /\ UNION {SeqToSet(lookups[k]) : k \in 1..Len(lookups)} = ReferencedArtists

\* A playlist with more artists than one lookup takes has been answered
\* after two lookups, the first of them full.
C18_Witness ==
  /\ routePc = "done" /\ failure = "none" /\ response.status = 200
  /\ Cardinality(ReferencedArtists) > ChunkSize
  /\ Len(lookups) = 2 /\ Len(lookups[1]) = ChunkSize

(***************************************************************************)
(* Properties of toggling, switching and auto-remove.                      *)
(***************************************************************************)
\* C14: a run of handlePreviewClick on the track that is playing stops
\* playback and does nothing else: the counter goes up by one, the element
\* is torn down, playingTrackId becomes null, the follow flag is cleared and
\* no attempt is started.
C14_ToggleOnlyStops == "toggleDidNotStop" \notin history

\* C15: a run of handlePreviewClick on a track while another one is playing
\* sets playingTrackId to null in that same run.
C15_SwitchStopsTheOldTrack == "switchDidNotStop" \notin history

\* C19: with auto-remove on and the source playlist owned when a send is
\* triggered, an OK answer of the add call is followed by a
\* remove-from-playlist call for the source playlist, and no such call goes
\* to another playlist.
C19_OwnedSourceIsRemovedFrom ==
  history \cap {"removeSkipped", "removeFromOther"} = {}

C21_NoSecondCopyInWindow ==
  /\ \A r \in 1..MaxAddRequests :
       /\ addReqs[r].pc = "add" \/ addReqs[r].result \in {"added", "error"}
            => addReqs[r].seen \in {"absent", "failed"}
       /\ addReqs[r].pc = "done" /\ addReqs[r].seen = "found"
            => addReqs[r].result = "duplicate"
       /\ addReqs[r].pc = "done" => (addReqs[r].seen = "found" <=> addReqs[r].result = "duplicate")
  /\ \A i \in 1..Min(DupWindow, Len(playlistUris)), j \in 1..Len(playlistUris) :
       i /= j => playlistUris[i] /= playlistUris[j]

(***************************************************************************)
(* Properties of the checks every protected endpoint starts with.          *)
(***************************************************************************)
\* C22: a protected endpoint answers a request without the access-token
\* cookie with 401, whatever else the request carries, and a request with
\* the cookie that lacks a required parameter (in a JSON object without it,
\* or for want of a JSON body) with 400; in both cases it has issued no
\* upstream call.
C22_AuthThenParameterChecks ==
  lastCall.endpoint \in Endpoints =>
    /\ ~lastCall.authed => lastCall.status = 401 /\ ~lastCall.upstream
    /\ lastCall.authed /\ lastCall.params /= "ok" =>
         lastCall.status = 400 /\ ~lastCall.upstream

(***************************************************************************)
(* Properties of the advance after an auto-removal, of playlist selection  *)
(* and of the bookkeeping of sends.                                        *)
(***************************************************************************)
\* The step in which send i, triggered with auto-remove on, ends with the
\* local removal of its track.
LocalRemovalStep(i) ==
  /\ i \in 1..Len(sends)
  /\ sends' = RemoveAt(sends, i)
  /\ sends[i].c.autoRemoveOnSend
  /\ \/ tracks' /= tracks
     \/ previewRequestIdRef' /= previewRequestIdRef
     \/ selectedTrackId' /= selectedTrackId

\* The track to advance to when the track at index i of list leaves it.
Neighbour(list, i) ==
  IF i + 1 <= Len(list) THEN list[i + 1]
  ELSE IF i - 1 >= 1 THEN list[i - 1]
  ELSE Null

\* C23: when a local removal takes the track at index i out of the track
\* list, the selection moves to the track that was at i + 1, else to the one
\* at i - 1; with neither, a selection of the removed track is cleared and a
\* playback of it is stopped (counter incremented, source dropped,
\* playingTrackId null).  A selection the removal makes is a track of the
\* list after the removal.
C23_AdvanceAfterRemoval ==
  [][\A i \in 1..MaxSends :
       LocalRemovalStep(i) =>
         LET track == sends[i].track
             index == IndexOf(tracks, track)
             next == Neighbour(tracks, index)
         IN /\ index /= 0 /\ next /= Null => selectedTrackId' = next
            /\ index /= 0 /\ next = Null =>
                 /\ selectedTrackId = track => selectedTrackId' = Null
                 /\ playingTrackId = track =>
                      /\ playingTrackId' = Null
                      /\ previewRequestIdRef' = previewRequestIdRef + 1
                      /\ audio'.src = Null
            /\ selectedTrackId' /= selectedTrackId /\ selectedTrackId' /= Null
                 => selectedTrackId' \in SeqToSet(tracks')]_vars

\* C24: the k-th track-listing request is the one for page k of the
\* listing; once the loop is over without a failed page, exactly one request
\* per page has been issued; the requests never outnumber the pages and the
\* chunks; and the handler eventually returns a response (200, 400, 401 or
\* 500).
C24_PaginationTerminates ==
  /\ [](routePc = "page" => nextUrl = pageRequests /\ nextUrl \in 1..Len(upstream))
  /\ [](routePc /= "page" /\ pageRequests > 0 /\ failure /= "page"
          => pageRequests = Len(upstream))
  /\ [](/\ pageRequests <= Len(upstream)
        /\ chunkRequests <= CeilDiv(Cardinality(ReferencedArtists), ChunkSize))
  /\ [][(routePc = "artists" \/ routePc = "done") => pageRequests' = pageRequests]_vars
  /\ <>[](routePc = "done" /\ response.status \in {200, 400, 401, 500})

\* C24 witness: a listing of two pages answered with success after two
\* track-listing requests and at least one artist lookup.
C24_Witness ==
  /\ routePc = "done" /\ response.status = 200
  /\ Len(upstream) = 2 /\ pageRequests = 2 /\ chunkRequests >= 1

\* C25: a preview attempt started before a playlist selection neither loads
\* audio nor sets playingTrackId after it: the track playing, and the track
\* whose preview the audio element holds, are tracks of the list shown for
\* the selected playlist (none while that list is still being fetched).
C25_SelectionSupersedesPreviews ==
  /\ playingTrackId /= Null => playingTrackId \in SeqToSet(tracks)
  /\ audio.src /= Null => audio.src \in SeqToSet(tracks)

\* C26: the track list shown is empty or the track list of the selected
\* playlist, and the loading flag stays set while the track-listing request
\* of the selected playlist is pending.
C26_ListIsOfSelectedPlaylist ==
  /\ tracks = <<>> \/ tracks = PlaylistTracks(selectedPlaylistId)
  /\ selectedPlaylistId \in loads => loadingTracks

\* C27: when no preview attempt is in flight, the audio element is playing
\* a source exactly when playingTrackId is the track of that source.
C27_AudioMatchesPlayingTrack ==
  attempts = {} =>
    /\ audio.playing => playingTrackId /= Null /\ playingTrackId = audio.src
    /\ playingTrackId /= Null => audio.playing /\ audio.src = playingTrackId

\* C28: a step that changes the playlist a slot targets leaves the slot
\* without sent ids, and a step that records a track in sentTrackIds of a
\* slot ends a send of that track from that slot whose destination-add call
\* went to the playlist the slot targets.
C28_SentIdsBelongToTarget ==
  [][\A s \in Slots :
       /\ destinations'[s].playlistId /= destinations[s].playlistId
            => destinations'[s].sentTrackIds = {}
       /\ \A t \in destinations'[s].sentTrackIds \ destinations[s].sentTrackIds :
            \E i \in 1..Len(sends) :
              /\ sends' = RemoveAt(sends, i)
              /\ sends[i].slot = s /\ sends[i].track = t
              /\ sends[i].playlistId = destinations'[s].playlistId]_vars

\* C29: selectedTrackId is null or the id of a track in the track list.
C29_SelectionIsInList ==
  selectedTrackId = Null \/ selectedTrackId \in SeqToSet(tracks)

\* C30: the step that handles a failed destination-add call only ends that
\* send: the slots (hence sentTrackIds), the track list, the selection, the
\* playback state and the preview attempts are unchanged and no remove call
\* is issued, with auto-remove on or off.  (The step taken is the first
\* failure of a session.)
C30_FailedAddChangesNothing ==
  [][failedAdds' /= failedAdds =>
       /\ \E i \in 1..Len(sends) :
            /\ sends[i].pc = "add"
            /\ failedAdds' = {[slot |-> sends[i].slot, track |-> sends[i].track]}
            /\ sends' = RemoveAt(sends, i)
       /\ UNCHANGED <<destinations, listVars, autoRemoveOnSend, previewOverrides,
                      playingTrackId, selectedTrackId, previewRequestIdRef,
                      followPlaybackRef, audio, attempts, history>>]_vars

\* C30 witness: after the destination-add call for a track failed, with
\* auto-remove on and nothing recorded or removed, the call for the same
\* track and slot is in flight again.
C30_Witness ==
  /\ autoRemoveOnSend
  /\ Len(sends) = 1 /\ sends[1].pc = "add" /\ sends[1].c.autoRemoveOnSend
  /\ failedAdds = {[slot |-> sends[1].slot, track |-> sends[1].track]}
  /\ sends[1].track \notin destinations[sends[1].slot].sentTrackIds
  /\ sends[1].playlistId = destinations[sends[1].slot].playlistId
  /\ Len(tracks) = 2
  /\ "removeCall" \notin history
====
